---- MODULE Spec2Model ----
(***************************************************************************)
(* Stock and price synchronisation of a watch feed to two marketplaces:    *)
(* seller.py (Ozon, "marketplace B") and market.py (Yandex, "marketplace   *)
(* A").  The model follows the two source files function by function.      *)
(*                                                                         *)
(* Python values.  A str is a sequence of one-character strings, so that   *)
(* str(), int() and the price conversion are computed character by         *)
(* character.  A spreadsheet cell is a tagged value: a str, an int or None.*)
(***************************************************************************)
EXTENDS Integers, Sequences, FiniteSets, TLC

\* ------------------------------------------------------------------------
\* Bounds of the model
\* ------------------------------------------------------------------------
MaxFeed == 2          \* rows of a small feed
MaxCatalog == 3       \* identifiers of a catalog list handed to the reconciler directly
MaxCalls == 2         \* reconciler calls made in succession on one list
MaxPages == 2         \* pages of a scripted listing answer
MaxPageItems == 2     \* items a page of a small catalog carries
MaxLen == 5           \* length of a list handed to divide directly
MaxChunk == 3         \* chunk size handed to divide directly
MaxPrice == 4         \* characters of a price string handed to price_conversion directly

\* ------------------------------------------------------------------------
\* Python built-ins used by the source
\* ------------------------------------------------------------------------
PyNone == [t |-> "None", i |-> 0, s |-> <<>>]
PyInt(n) == [t |-> "int", i |-> n, s |-> <<>>]
PyStr(chars) == [t |-> "str", i |-> 0, s |-> chars]

Digits == <<"0", "1", "2", "3", "4", "5", "6", "7", "8", "9">>
IsDigit(c) == \E d \in 1..10 : Digits[d] = c
DigitVal(c) == (CHOOSE d \in 1..10 : Digits[d] = c) - 1

RECURSIVE NatToStr(_)
NatToStr(n) == IF n < 10 THEN <<Digits[n + 1]>>
               ELSE Append(NatToStr(n \div 10), Digits[(n % 10) + 1])

\* str(x) of a cell value
py_str(x) ==
  CASE x.t = "str" -> x.s
    [] x.t = "int" -> IF x.i < 0 THEN <<"-">> \o NatToStr(0 - x.i) ELSE NatToStr(x.i)
    [] OTHER -> <<"N", "o", "n", "e">>

RECURSIVE LStrip(_)
LStrip(s) == IF s # <<>> /\ Head(s) = " " THEN LStrip(Tail(s)) ELSE s
RECURSIVE RStrip(_)
RStrip(s) == IF s # <<>> /\ s[Len(s)] = " " THEN RStrip(SubSeq(s, 1, Len(s) - 1)) ELSE s

RECURSIVE DigitsValue(_)
DigitsValue(s) == IF s = <<>> THEN 0
                  ELSE 10 * DigitsValue(SubSeq(s, 1, Len(s) - 1)) + DigitVal(s[Len(s)])

\* the decimal literal accepted by int(): digits, single underscores between digits
IsIntBody(b) ==
  /\ b # <<>>
  /\ \A k \in 1..Len(b) : IsDigit(b[k]) \/ b[k] = "_"
  /\ IsDigit(b[1]) /\ IsDigit(b[Len(b)])
  /\ \A k \in 1..(Len(b) - 1) : ~(b[k] = "_" /\ b[k + 1] = "_")

\* int(x): [exc |-> "none", v |-> value] or the exception raised
py_int(x) ==
  CASE x.t = "int" -> [exc |-> "none", v |-> x.i]
    [] x.t = "str" ->
         LET st == RStrip(LStrip(x.s))
             signed == st # <<>> /\ st[1] \in {"+", "-"}
             body == IF signed THEN Tail(st) ELSE st
             mag == DigitsValue(SelectSeq(body, IsDigit))
         IN  IF IsIntBody(body)
             THEN [exc |-> "none", v |-> IF signed /\ st[1] = "-" THEN 0 - mag ELSE mag]
             ELSE [exc |-> "ValueError", v |-> 0]
    [] OTHER -> [exc |-> "TypeError", v |-> 0]

\* x in lst
py_in(x, lst) == \E k \in 1..Len(lst) : lst[k] = x

\* every occurrence dropped instead: [y for y in lst if y != x]
py_remove_all(lst, x) ==
  LET differs(y) == y # x
  IN  SelectSeq(lst, differs)

\* lst.remove(x): drops the first occurrence (the callers test "in" first)
py_remove(lst, x) ==
  LET k == CHOOSE j \in 1..Len(lst) : lst[j] = x /\ \A h \in 1..(j - 1) : lst[h] # x
  IN  SubSeq(lst, 1, k - 1) \o SubSeq(lst, k + 1, Len(lst))

\* lst[i:j] for 0 <= i <= j
py_slice(lst, i, j) ==
  LET hi == IF j > Len(lst) THEN Len(lst) ELSE j
  IN  IF i >= hi THEN <<>> ELSE SubSeq(lst, i + 1, hi)

\* list(range(0, stop, step)) for step >= 1
py_range(stop, step) ==
  [k \in 1..((stop + step - 1) \div step) |-> (k - 1) * step]

\* the text before the last dot instead: s.rsplit(".", 1)[0]
SplitDotFirst_rsplit(s) ==
  IF \E k \in 1..Len(s) : s[k] = "."
  THEN LET d == CHOOSE k \in 1..Len(s) : s[k] = "." /\ \A h \in (k + 1)..Len(s) : s[h] # "."
       IN  SubSeq(s, 1, d - 1)
  ELSE s

\* s.split(".")[0]
SplitDotFirst(s) ==
  IF \E k \in 1..Len(s) : s[k] = "."
  THEN LET d == CHOOSE k \in 1..Len(s) : s[k] = "." /\ \A h \in 1..(k - 1) : s[h] # "."
       IN  SubSeq(s, 1, d - 1)
  ELSE s

\* ------------------------------------------------------------------------
\* seller.py: pure functions
\* ------------------------------------------------------------------------

\* price_conversion(price): [exc, v]; a non-str price has no split()
price_conversion(price) ==
  IF price.t # "str" THEN [exc |-> "AttributeError", v |-> <<>>]
  ELSE [exc |-> "none", v |-> SelectSeq(SplitDotFirst(price.s), IsDigit)]

\* divide with the slice taken one element too long: lst[i : i + n + 1]
divide_overlap(lst, n) ==
  LET starts == py_range(Len(lst), n)
  IN  [k \in 1..Len(starts) |-> py_slice(lst, starts[k], starts[k] + n + 1)]

\* divide(lst, n), as list(divide(lst, n))
divide(lst, n) ==
  LET starts == py_range(Len(lst), n)
  IN  [k \in 1..Len(starts) |-> py_slice(lst, starts[k], starts[k] + n)]

\* the pass with a quantity that does not convert replaced by the count 0
seller_create_stocks_body_default(st, watch) ==
  IF ~py_in(py_str(watch.code), st.offer_ids) THEN st
  ELSE LET count == py_str(watch.quantity)
           stock == IF count = <<">", "1", "0">> THEN 100
                    ELSE IF count = <<"1">> THEN 0
                    ELSE py_int(watch.quantity).v
       IN  [exc |-> "none",
            stocks |-> Append(st.stocks,
                              [offer_id |-> py_str(watch.code), stock |-> stock]),
            offer_ids |-> py_remove(st.offer_ids, py_str(watch.code))]

\* one pass of the first loop of seller.create_stocks
seller_create_stocks_body(st, watch) ==
  IF ~py_in(py_str(watch.code), st.offer_ids) THEN st
  ELSE LET count == py_str(watch.quantity)
           stock == IF count = <<">", "1", "0">> THEN [exc |-> "none", v |-> 100]
                    ELSE IF count = <<"1">> THEN [exc |-> "none", v |-> 0]
                    ELSE py_int(watch.quantity)
       IN  IF stock.exc # "none" THEN [st EXCEPT !.exc = stock.exc]
           ELSE [exc |-> "none",
                 stocks |-> Append(st.stocks,
                                   [offer_id |-> py_str(watch.code), stock |-> stock.v]),
                 offer_ids |-> py_remove(st.offer_ids, py_str(watch.code))]

\* the first loop of seller.create_stocks over watch_remnants[lo..hi]; an
\* exception raised by one pass ends the loop
RECURSIVE seller_create_stocks_loop(_, _, _, _)
seller_create_stocks_loop(st, watch_remnants, lo, hi) ==
  IF lo > hi THEN st
  ELSE IF lo = hi THEN seller_create_stocks_body(st, watch_remnants[lo])
  ELSE LET mid == (lo + hi) \div 2
           left == seller_create_stocks_loop(st, watch_remnants, lo, mid)
       IN  IF left.exc # "none" THEN left
           ELSE seller_create_stocks_loop(left, watch_remnants, mid + 1, hi)

\* seller.create_stocks(watch_remnants, offer_ids): the exception raised (or
\* "none"), the list returned and the caller's offer_ids list afterwards
seller_create_stocks(watch_remnants, offer_ids) ==
  LET st == seller_create_stocks_loop(
              [exc |-> "none", stocks |-> <<>>, offer_ids |-> offer_ids],
              watch_remnants, 1, Len(watch_remnants))
  IN  IF st.exc # "none" THEN st
      ELSE [st EXCEPT !.stocks =
              st.stocks \o [k \in 1..Len(st.offer_ids) |->
                              [offer_id |-> st.offer_ids[k], stock |-> 0]]]

\* one pass of the loop of seller.create_prices
seller_create_prices_body(st, watch, offer_ids) ==
  IF ~py_in(py_str(watch.code), offer_ids) THEN st
  ELSE LET conv == price_conversion(watch.price)
       IN  IF conv.exc # "none" THEN [st EXCEPT !.exc = conv.exc]
           ELSE [st EXCEPT !.prices = Append(@,
                   [auto_action_enabled |-> "UNKNOWN",
                    currency_code |-> "RUB",
                    offer_id |-> py_str(watch.code),
                    old_price |-> "0",
                    price |-> conv.v])]

RECURSIVE seller_create_prices_loop(_, _, _, _, _)
seller_create_prices_loop(st, watch_remnants, offer_ids, lo, hi) ==
  IF lo > hi THEN st
  ELSE IF lo = hi THEN seller_create_prices_body(st, watch_remnants[lo], offer_ids)
  ELSE LET mid == (lo + hi) \div 2
           left == seller_create_prices_loop(st, watch_remnants, offer_ids, lo, mid)
       IN  IF left.exc # "none" THEN left
           ELSE seller_create_prices_loop(left, watch_remnants, offer_ids, mid + 1, hi)

\* seller.create_prices(watch_remnants, offer_ids)
seller_create_prices(watch_remnants, offer_ids) ==
  seller_create_prices_loop([exc |-> "none", prices |-> <<>>],
                            watch_remnants, offer_ids, 1, Len(watch_remnants))

\* ------------------------------------------------------------------------
\* market.py: pure functions
\* ------------------------------------------------------------------------

\* one pass of the first loop of market.create_stocks
market_create_stocks_body(st, watch, warehouse_id, date) ==
  IF ~py_in(py_str(watch.code), st.offer_ids) THEN st
  ELSE LET count == py_str(watch.quantity)
           stock == IF count = <<">", "1", "0">> THEN [exc |-> "none", v |-> 100]
                    ELSE IF count = <<"1">> THEN [exc |-> "none", v |-> 0]
                    ELSE py_int(watch.quantity)
       IN  IF stock.exc # "none" THEN [st EXCEPT !.exc = stock.exc]
           ELSE [exc |-> "none",
                 stocks |-> Append(st.stocks,
                              [sku |-> py_str(watch.code),
                               warehouseId |-> warehouse_id,
                               items |-> <<[count |-> stock.v, type |-> "FIT",
                                            updatedAt |-> date]>>]),
                 offer_ids |-> py_remove(st.offer_ids, py_str(watch.code))]

RECURSIVE market_create_stocks_loop(_, _, _, _, _, _)
market_create_stocks_loop(st, watch_remnants, warehouse_id, date, lo, hi) ==
  IF lo > hi THEN st
  ELSE IF lo = hi THEN market_create_stocks_body(st, watch_remnants[lo], warehouse_id, date)
  ELSE LET mid == (lo + hi) \div 2
           left == market_create_stocks_loop(st, watch_remnants, warehouse_id, date, lo, mid)
       IN  IF left.exc # "none" THEN left
           ELSE market_create_stocks_loop(left, watch_remnants, warehouse_id, date,
                                          mid + 1, hi)

\* market.create_stocks(watch_remnants, offer_ids, warehouse_id), date being
\* the UTC time read at the call
market_create_stocks(watch_remnants, offer_ids, warehouse_id, date) ==
  LET st == market_create_stocks_loop(
              [exc |-> "none", stocks |-> <<>>, offer_ids |-> offer_ids],
              watch_remnants, warehouse_id, date, 1, Len(watch_remnants))
  IN  IF st.exc # "none" THEN st
      ELSE [st EXCEPT !.stocks =
              st.stocks \o [k \in 1..Len(st.offer_ids) |->
                              [sku |-> st.offer_ids[k],
                               warehouseId |-> warehouse_id,
                               items |-> <<[count |-> 0, type |-> "FIT",
                                            updatedAt |-> date]>>]]]

\* one pass of the loop of market.create_prices
market_create_prices_body(st, watch, offer_ids) ==
  IF ~py_in(py_str(watch.code), offer_ids) THEN st
  ELSE LET conv == price_conversion(watch.price)
           value == IF conv.exc # "none" THEN conv ELSE py_int(PyStr(conv.v))
       IN  IF value.exc # "none" THEN [st EXCEPT !.exc = value.exc]
           ELSE [st EXCEPT !.prices = Append(@,
                   [id |-> py_str(watch.code),
                    price |-> [value |-> value.v, currencyId |-> "RUR"]])]

RECURSIVE market_create_prices_loop(_, _, _, _, _)
market_create_prices_loop(st, watch_remnants, offer_ids, lo, hi) ==
  IF lo > hi THEN st
  ELSE IF lo = hi THEN market_create_prices_body(st, watch_remnants[lo], offer_ids)
  ELSE LET mid == (lo + hi) \div 2
           left == market_create_prices_loop(st, watch_remnants, offer_ids, lo, mid)
       IN  IF left.exc # "none" THEN left
           ELSE market_create_prices_loop(left, watch_remnants, offer_ids, mid + 1, hi)

\* market.create_prices(watch_remnants, offer_ids)
market_create_prices(watch_remnants, offer_ids) ==
  market_create_prices_loop([exc |-> "none", prices |-> <<>>],
                            watch_remnants, offer_ids, 1, Len(watch_remnants))

\* ------------------------------------------------------------------------
\* Program constants
\* ------------------------------------------------------------------------
SellerPageLimit == 1000
MarketPageLimit == 200
SellerMainStockBatch == 100
SellerMainPriceBatch == 900
SellerUploadPricesBatch == 1000
SellerUploadStocksBatch == 100
MarketMainStockBatch == 2000
MarketUploadPricesBatch == 500
MarketUploadStocksBatch == 2000

\* ------------------------------------------------------------------------
\* State
\* ------------------------------------------------------------------------
VARIABLES
  mod,            \* "seller" or "market": the source file of the function run
  entry,          \* the function run: main, upload_prices, upload_stocks, ...
  pc,             \* the statement the run is at
  campaign,       \* "OZON", or the Yandex campaign at hand: "FBS", "DBS"
  site,           \* the table published on the feed site
  api,            \* per campaign, the answers the listing endpoint gives, in order
  served,         \* listing answers consumed by the catalog fetch at hand
  reqlog,         \* every marketplace request sent, in order
  calls,          \* every create_stocks / create_prices call: arguments and outcome
  exc,            \* the exception in flight, or "none"
  printed,        \* what main printed
  cursor,         \* get_offer_ids: last_id / page
  product_list,   \* get_offer_ids: product_list
  offer_ids,      \* offer_ids of the function run
  watch_remnants, \* watch_remnants of the function run
  stocks,         \* stocks of the function run
  prices,         \* prices of the function run
  batches,        \* the chunks the upload loop at hand has still to send
  args,           \* arguments of a direct divide call
  ret             \* value returned by upload_prices / upload_stocks

vars == <<mod, entry, pc, campaign, site, api, served, reqlog, calls, exc, printed,
          cursor, product_list, offer_ids, watch_remnants, stocks, prices, batches,
          args, ret>>

\* ------------------------------------------------------------------------
\* Inputs
\* ------------------------------------------------------------------------
Id123 == <<"1", "2", "3">>
Id456 == <<"4", "5", "6">>
Id789 == <<"7", "8", "9">>
Price5990 == PyStr(<<"5", "'", "9", "9", "0", ".", "0", "0", " ", "r", ".">>)
Price100 == PyStr(<<"1", "0", "0", " ", "r", ".">>)

Watch(code, quantity, price) == [code |-> code, quantity |-> quantity, price |-> price]

\* rows of the spreadsheet: codes and quantities come as text or as numbers
Watches ==
  { Watch(PyInt(123), PyStr(<<"5">>), Price5990),
    Watch(PyStr(Id123), PyStr(<<">", "1", "0">>), Price100),
    Watch(PyStr(Id456), PyStr(<<"1">>), Price100),
    Watch(PyInt(456), PyInt(42), PyInt(5990)),
    Watch(PyStr(Id789), PyStr(<<"4", "2">>), Price100),
    Watch(PyStr(Id123), PyStr(<<>>), Price100),
    Watch(PyStr(Id789), PyStr(<<"x">>), Price100) }

\* the rows the runs of main and of the upload functions draw their feed from
RunWatches ==
  { Watch(PyInt(123), PyStr(<<"5">>), Price5990),
    Watch(PyStr(Id456), PyStr(<<">", "1", "0">>), Price100),
    Watch(PyStr(Id123), PyStr(<<>>), Price100),
    Watch(PyStr(Id789), PyStr(<<"x">>), Price100) }

SeqsUpTo(S, n) == UNION { [1..k -> S] : k \in 0..n }

Feeds == SeqsUpTo(Watches, MaxFeed)
RunFeeds == SeqsUpTo(RunWatches, MaxFeed)
CatalogLists == SeqsUpTo({Id123, Id456}, MaxCatalog)
RunCatalogs == { <<>>, <<Id123>>, <<Id123, Id456>>, <<Id456, Id123, Id123>> }

BigCatalog(n) == [k \in 1..n |-> NatToStr(k)]
DupCatalog(n) == BigCatalog(n) \o BigCatalog(n)
BigFeed(n) == [k \in 1..n |-> Watch(PyInt(k), PyStr(<<"5">>), Price5990)]

Now == "2024-01-01T00:00:00Z"
Warehouse(c) == IF c = "FBS" THEN "WAREHOUSE_FBS_ID" ELSE "WAREHOUSE_DBS_ID"

\* the answers of the Ozon listing endpoint for a catalog served size items a page
SellerScript(catalog, size) ==
  IF catalog = <<>> THEN << [items |-> <<>>, total |-> 0, last_id |-> <<>>] >>
  ELSE LET parts == divide(catalog, size)
       IN  [k \in 1..Len(parts) |->
              [items |-> [j \in 1..Len(parts[k]) |-> [offer_id |-> parts[k][j]]],
               total |-> Len(catalog),
               last_id |-> NatToStr(IF k * size > Len(catalog) THEN Len(catalog)
                                    ELSE k * size)]]

\* the answers of the Yandex listing endpoint; the last page carries token last
MarketScript(catalog, size, last) ==
  IF catalog = <<>>
  THEN << [offerMappingEntries |-> <<>>, paging |-> [nextPageToken |-> last]] >>
  ELSE LET parts == divide(catalog, size)
       IN  [k \in 1..Len(parts) |->
              [offerMappingEntries |->
                 [j \in 1..Len(parts[k]) |-> [offer |-> [shopSku |-> parts[k][j]]]],
               paging |-> [nextPageToken |->
                 IF k = Len(parts) THEN last ELSE PyStr(NatToStr(k * size))]]]

\* ------------------------------------------------------------------------
\* Control flow of the functions run
\* ------------------------------------------------------------------------

\* the statements that can follow statement p
Succ(p) ==
  CASE entry = "main" /\ mod = "seller" ->
         CASE p = "env" -> {"get_offer_ids"}
           [] p = "get_offer_ids" -> {"download_stock"}
           [] p = "download_stock" -> {"create_stocks"}
           [] p = "create_stocks" -> {"update_stocks"}
           [] p = "update_stocks" -> {"create_prices"}
           [] p = "create_prices" -> {"update_price"}
           [] OTHER -> {"return"}
    [] entry = "main" /\ mod = "market" ->
         CASE p = "env" -> {"download_stock"}
           [] p = "download_stock" -> {"get_offer_ids"}
           [] p = "get_offer_ids" -> {"create_stocks"}
           [] p = "create_stocks" -> {"update_stocks"}
           [] p = "update_stocks" -> {"upload_prices"}
           [] p = "upload_prices" /\ campaign = "FBS" -> {"get_offer_ids"}
           [] OTHER -> {"return"}
    [] entry = "upload_prices" ->
         CASE p = "get_offer_ids" -> {"create_prices"}
           [] p = "create_prices" -> {"update_price"}
           [] OTHER -> {"return"}
    [] entry = "upload_stocks" ->
         CASE p = "get_offer_ids" -> {"create_stocks"}
           [] p = "create_stocks" -> {"update_stocks"}
           [] p = "update_stocks" -> {"not_empty"}
           [] OTHER -> {"return"}
    [] entry = "reconcile" ->
         IF Len(calls) + 1 < MaxCalls THEN {"create_stocks", "create_prices"}
         ELSE {"return"}
    [] OTHER -> {"return"}

\* the statements of main inside its try block
InTry(p) ==
  /\ entry = "main"
  /\ p # "env"
  /\ mod = "market" => p # "download_stock"

\* isinstance(e, cls) for the exception classes the handlers name
IsInstance(e, cls) ==
  CASE cls = "ReadTimeout" -> e = "ReadTimeout"
    [] cls = "ConnectionError" -> e \in {"ConnectionError", "ConnectTimeout"}
    [] OTHER -> TRUE

\* an exception raised at statement pc: it reaches the handlers of main or
\* leaves the function run
Raise(e) ==
  /\ exc' = e
  /\ pc' = IF InTry(pc) THEN "except" ELSE "raised"

\* what a request to a marketplace or to the feed site can raise
NetErrors == {"ReadTimeout", "ConnectionError", "HTTPError", "JSONDecodeError"}
DownloadErrors == {"ReadTimeout", "ConnectionError", "HTTPError", "BadZipFile"}

\* the chunk sizes with the price chunk of seller.main taken from upload_prices
BatchSize_unified ==
  CASE mod = "seller" /\ pc = "create_stocks" -> SellerMainStockBatch
    [] mod = "seller" -> SellerUploadPricesBatch
    [] mod = "market" /\ entry = "upload_prices" -> MarketUploadPricesBatch
    [] OTHER -> MarketMainStockBatch

BatchSize ==
  CASE mod = "seller" /\ entry = "main" /\ pc = "create_stocks" -> SellerMainStockBatch
    [] mod = "seller" /\ entry = "main" /\ pc = "create_prices" -> SellerMainPriceBatch
    [] mod = "seller" /\ entry = "upload_prices" -> SellerUploadPricesBatch
    [] mod = "seller" /\ entry = "upload_stocks" -> SellerUploadStocksBatch
    [] mod = "market" /\ entry = "main" -> MarketMainStockBatch
    [] mod = "market" /\ entry = "upload_prices" -> MarketUploadPricesBatch
    [] mod = "market" /\ entry = "upload_stocks" -> MarketUploadStocksBatch
    [] OTHER -> 1

Request(fn, cur, limit, payload) ==
  [fn |-> fn, campaign |-> campaign, cursor |-> cur, limit |-> limit, payload |-> payload]

\* ------------------------------------------------------------------------
\* Actions
\* ------------------------------------------------------------------------

\* main: Env() and the env.str(...) lookups; a missing variable raises
load_env ==
  /\ pc = "env"
  /\ \/ pc' \in Succ(pc) /\ exc' = exc
     \/ Raise("EnvError")
  /\ UNCHANGED <<mod, entry, campaign, site, api, served, reqlog, calls, printed, cursor,
                 product_list, offer_ids, watch_remnants, stocks, prices, batches, args,
                 ret>>

\* the pass of seller.get_offer_ids with the loop left as soon as the items
\* gathered reach or pass the total: "if total <= len(product_list): break"
seller_get_offer_ids_at_least ==
  /\ mod = "seller" /\ pc = "get_offer_ids"
  /\ reqlog' = Append(reqlog, Request("get_product_list", cursor, SellerPageLimit, <<>>))
  /\ \/ /\ served < Len(api[campaign])
        /\ LET some_prod == api[campaign][served + 1]
               extended == product_list \o some_prod.items
           IN  /\ served' = served + 1
               /\ cursor' = PyStr(some_prod.last_id)
               /\ IF some_prod.total <= Len(extended)
                  THEN /\ offer_ids' = [k \in 1..Len(extended) |-> extended[k].offer_id]
                       /\ product_list' = <<>>
                       /\ pc' \in Succ(pc)
                  ELSE /\ product_list' = extended
                       /\ UNCHANGED <<offer_ids, pc>>
        /\ exc' = exc
     \/ /\ \E e \in NetErrors : Raise(e)
        /\ UNCHANGED <<served, cursor, product_list, offer_ids>>
  /\ UNCHANGED <<mod, entry, campaign, site, api, calls, printed, watch_remnants, stocks,
                 prices, batches, args, ret>>

\* seller.get_offer_ids: one pass of the while loop, and the statements after
\* the loop when the pass breaks out of it
seller_get_offer_ids ==
  /\ mod = "seller" /\ pc = "get_offer_ids"
  /\ reqlog' = Append(reqlog, Request("get_product_list", cursor, SellerPageLimit, <<>>))
  /\ \/ /\ served < Len(api[campaign])
        /\ LET some_prod == api[campaign][served + 1]
               extended == product_list \o some_prod.items
           IN  /\ served' = served + 1
               /\ cursor' = PyStr(some_prod.last_id)
               /\ IF some_prod.total = Len(extended)
                  THEN /\ offer_ids' = [k \in 1..Len(extended) |-> extended[k].offer_id]
                       /\ product_list' = <<>>
                       /\ pc' \in Succ(pc)
                  ELSE /\ product_list' = extended
                       /\ UNCHANGED <<offer_ids, pc>>
        /\ exc' = exc
     \/ /\ \E e \in NetErrors : Raise(e)
        /\ UNCHANGED <<served, cursor, product_list, offer_ids>>
  /\ UNCHANGED <<mod, entry, campaign, site, api, calls, printed, watch_remnants, stocks,
                 prices, batches, args, ret>>

\* the truth value with only None taken as false
Truthy_not_none(x) == x.t # "None"

\* truth value of a page token: None and "" are false
Truthy(x) == ~(x.t = "None" \/ (x.t = "str" /\ x.s = <<>>))

\* market.get_offer_ids: one pass of the while loop, and the statements after
\* the loop when the pass breaks out of it
market_get_offer_ids ==
  /\ mod = "market" /\ pc = "get_offer_ids"
  /\ reqlog' = Append(reqlog, Request("get_product_list", cursor, MarketPageLimit, <<>>))
  /\ \/ /\ served < Len(api[campaign])
        /\ LET some_prod == api[campaign][served + 1]
               extended == product_list \o some_prod.offerMappingEntries
               page == some_prod.paging.nextPageToken
           IN  /\ served' = served + 1
               /\ cursor' = page
               /\ IF ~Truthy(page)
                  THEN /\ offer_ids' = [k \in 1..Len(extended) |-> extended[k].offer.shopSku]
                       /\ product_list' = <<>>
                       /\ pc' \in Succ(pc)
                  ELSE /\ product_list' = extended
                       /\ UNCHANGED <<offer_ids, pc>>
        /\ exc' = exc
     \/ /\ \E e \in NetErrors : Raise(e)
        /\ UNCHANGED <<served, cursor, product_list, offer_ids>>
  /\ UNCHANGED <<mod, entry, campaign, site, api, calls, printed, watch_remnants, stocks,
                 prices, batches, args, ret>>

\* seller.download_stock, called by both mains
download_stock ==
  /\ pc = "download_stock"
  /\ \/ /\ watch_remnants' = site
        /\ pc' \in Succ(pc)
        /\ exc' = exc
     \/ /\ \E e \in DownloadErrors : Raise(e)
        /\ UNCHANGED watch_remnants
  /\ UNCHANGED <<mod, entry, campaign, site, api, served, reqlog, calls, printed, cursor,
                 product_list, offer_ids, stocks, prices, batches, args, ret>>

\* stocks = create_stocks(...) and the list(divide(stocks, n)) of the loop after it
call_create_stocks ==
  /\ pc = "create_stocks"
  /\ LET r == IF mod = "seller" THEN seller_create_stocks(watch_remnants, offer_ids)
              ELSE market_create_stocks(watch_remnants, offer_ids, Warehouse(campaign), Now)
     IN  /\ offer_ids' = r.offer_ids
         /\ calls' = Append(calls,
                       [fn |-> "create_stocks", campaign |-> campaign,
                        watch_remnants |-> watch_remnants,
                        offer_ids |-> offer_ids, exc |-> r.exc,
                        result |-> IF r.exc = "none" THEN r.stocks ELSE <<>>,
                        offer_ids_after |-> r.offer_ids])
         /\ IF r.exc = "none"
            THEN /\ stocks' = r.stocks
                 /\ batches' = divide(r.stocks, BatchSize)
                 /\ pc' \in Succ(pc)
                 /\ exc' = exc
            ELSE /\ Raise(r.exc)
                 /\ UNCHANGED <<stocks, batches>>
  /\ UNCHANGED <<mod, entry, campaign, site, api, served, reqlog, printed, cursor,
                 product_list, watch_remnants, prices, args, ret>>

\* prices = create_prices(...) and the list(divide(prices, n)) of the loop after it
call_create_prices ==
  /\ pc = "create_prices"
  /\ LET r == IF mod = "seller" THEN seller_create_prices(watch_remnants, offer_ids)
              ELSE market_create_prices(watch_remnants, offer_ids)
     IN  /\ calls' = Append(calls,
                       [fn |-> "create_prices", campaign |-> campaign,
                        watch_remnants |-> watch_remnants,
                        offer_ids |-> offer_ids, exc |-> r.exc,
                        result |-> IF r.exc = "none" THEN r.prices ELSE <<>>,
                        offer_ids_after |-> offer_ids])
         /\ IF r.exc = "none"
            THEN /\ prices' = r.prices
                 /\ batches' = divide(r.prices, BatchSize)
                 /\ pc' \in Succ(pc)
                 /\ exc' = exc
            ELSE /\ Raise(r.exc)
                 /\ UNCHANGED <<prices, batches>>
  /\ UNCHANGED <<mod, entry, campaign, site, api, served, reqlog, printed, cursor,
                 product_list, offer_ids, watch_remnants, stocks, args, ret>>

\* one pass of a "for some_stock in ...: update_stocks(some_stock, ...)" loop,
\* or the end of the loop
update_stocks ==
  /\ pc = "update_stocks"
  /\ IF batches = <<>>
     THEN /\ pc' \in Succ(pc)
          /\ UNCHANGED <<reqlog, batches, exc>>
     ELSE /\ reqlog' = Append(reqlog, Request("update_stocks", PyNone, 0, Head(batches)))
          /\ \/ batches' = Tail(batches) /\ UNCHANGED <<pc, exc>>
             \/ (\E e \in NetErrors : Raise(e)) /\ UNCHANGED batches
  /\ UNCHANGED <<mod, entry, campaign, site, api, served, calls, printed, cursor,
                 product_list, offer_ids, watch_remnants, stocks, prices, args, ret>>

\* one pass of a "for some_price in ...: update_price(some_price, ...)" loop,
\* or the end of the loop
update_price ==
  /\ pc = "update_price"
  /\ IF batches = <<>>
     THEN /\ pc' \in Succ(pc)
          /\ ret' = IF entry = "upload_prices" THEN prices ELSE ret
          /\ UNCHANGED <<reqlog, batches, exc>>
     ELSE /\ reqlog' = Append(reqlog, Request("update_price", PyNone, 0, Head(batches)))
          /\ \/ batches' = Tail(batches) /\ UNCHANGED <<pc, exc>>
             \/ (\E e \in NetErrors : Raise(e)) /\ UNCHANGED batches
          /\ ret' = ret
  /\ UNCHANGED <<mod, entry, campaign, site, api, served, calls, printed, cursor,
                 product_list, offer_ids, watch_remnants, stocks, prices, args>>

\* market.main: "upload_prices(watch_remnants, campaign, market_token)".
\* upload_prices is an async def and the call is not awaited: it builds a
\* coroutine object that is dropped, and no statement of upload_prices runs.
\* The statement after it of the FBS half starts the DBS half.
market_main_upload_prices ==
  /\ mod = "market" /\ entry = "main" /\ pc = "upload_prices"
  /\ pc' \in Succ(pc)
  /\ campaign' = "DBS"
  /\ served' = 0
  /\ cursor' = PyStr(<<>>)
  /\ UNCHANGED <<mod, entry, site, api, reqlog, calls, exc, printed, product_list,
                 offer_ids, watch_remnants, stocks, prices, batches, args, ret>>

\* upload_stocks: not_empty = list(filter(...)) and the return
not_empty ==
  /\ entry = "upload_stocks" /\ pc = "not_empty"
  /\ ret' = << SelectSeq(stocks,
                 LAMBDA stock : IF mod = "seller" THEN stock.stock # 0
                                ELSE stock.items[1].count # 0),
               stocks >>
  /\ pc' \in Succ(pc)
  /\ UNCHANGED <<mod, entry, campaign, site, api, served, reqlog, calls, exc, printed,
                 cursor, product_list, offer_ids, watch_remnants, stocks, prices, batches,
                 args>>

\* main: the except clauses, tried in order
except ==
  /\ pc = "except"
  /\ printed' = Append(printed,
       IF IsInstance(exc, "ReadTimeout") THEN "timeout"
       ELSE IF IsInstance(exc, "ConnectionError") THEN "connection"
       ELSE "ERROR_2")
  /\ exc' = "none"
  /\ pc' = "return"
  /\ UNCHANGED <<mod, entry, campaign, site, api, served, reqlog, calls, cursor,
                 product_list, offer_ids, watch_remnants, stocks, prices, batches, args,
                 ret>>

\* a direct call list(divide(lst, n))
call_divide ==
  /\ entry = "divide" /\ pc = "divide"
  /\ batches' = divide(args.lst, args.n)
  /\ pc' = "return"
  /\ UNCHANGED <<mod, entry, campaign, site, api, served, reqlog, calls, exc, printed,
                 cursor, product_list, offer_ids, watch_remnants, stocks, prices, args,
                 ret>>

\* a direct call price_conversion(price): ret takes the value returned or the
\* exception raised
call_price_conversion ==
  /\ entry = "price_conversion" /\ pc = "price_conversion"
  /\ ret' = price_conversion(args.price)
  /\ pc' = "return"
  /\ UNCHANGED <<mod, entry, campaign, site, api, served, reqlog, calls, exc, printed,
                 cursor, product_list, offer_ids, watch_remnants, stocks, prices, batches,
                 args>>

\* ------------------------------------------------------------------------
\* Initial states and specifications
\* ------------------------------------------------------------------------
Fresh ==
  /\ served = 0 /\ reqlog = <<>> /\ calls = <<>> /\ exc = "none" /\ printed = <<>>
  /\ cursor = PyStr(<<>>) /\ product_list = <<>> /\ stocks = <<>> /\ prices = <<>>
  /\ batches = <<>> /\ ret = <<>>

NoArgs == [lst |-> <<>>, n |-> 1]

\* catalogs and feeds long enough to fill and to overflow one batch of the
\* upload loops of a function.  seller.main prices only the identifiers that
\* create_stocks left in offer_ids, so its long price list needs a catalog
\* that lists every identifier twice.
LongInputs(m, e) ==
  CASE m = "seller" /\ e = "main" ->
         { [feed |-> <<>>, catalog |-> BigCatalog(n), size |-> SellerPageLimit] :
             n \in {SellerMainStockBatch, SellerMainStockBatch + 1} }
         \cup
         { [feed |-> BigFeed(n), catalog |-> DupCatalog(n), size |-> SellerPageLimit] :
             n \in {SellerMainPriceBatch, SellerMainPriceBatch + 1} }
    [] m = "seller" /\ e = "upload_prices" ->
         { [feed |-> BigFeed(n), catalog |-> BigCatalog(n), size |-> SellerPageLimit] :
             n \in {SellerUploadPricesBatch, SellerUploadPricesBatch + 1} }
    [] m = "seller" /\ e = "upload_stocks" ->
         { [feed |-> <<>>, catalog |-> BigCatalog(n), size |-> SellerPageLimit] :
             n \in {SellerUploadStocksBatch, SellerUploadStocksBatch + 1} }
    [] m = "market" /\ e = "main" ->
         { [feed |-> <<>>, catalog |-> BigCatalog(n), size |-> MarketPageLimit] :
             n \in {MarketMainStockBatch, MarketMainStockBatch + 1} }
    [] m = "market" /\ e = "upload_prices" ->
         { [feed |-> BigFeed(n), catalog |-> BigCatalog(n), size |-> MarketPageLimit] :
             n \in {MarketUploadPricesBatch, MarketUploadPricesBatch + 1} }
    [] OTHER ->
         { [feed |-> <<>>, catalog |-> BigCatalog(n), size |-> MarketPageLimit] :
             n \in {MarketUploadStocksBatch, MarketUploadStocksBatch + 1} }

\* the feed and the listing answers of one run of function e of module m
RunInputs(m, e) ==
  { [feed |-> f,
     api |-> IF m = "seller" THEN [c \in {"OZON"} |-> SellerScript(a, MaxPageItems)]
             ELSE [c \in {"FBS", "DBS"} |->
                     MarketScript(IF c = "FBS" \/ e # "main" THEN a ELSE b,
                                  MaxPageItems, PyNone)]] :
      f \in RunFeeds, a \in RunCatalogs, b \in RunCatalogs }
  \cup
  { [feed |-> x.feed,
     api |-> IF m = "seller" THEN [c \in {"OZON"} |-> SellerScript(x.catalog, x.size)]
             ELSE [c \in {"FBS", "DBS"} |-> MarketScript(x.catalog, x.size, PyNone)]] :
      x \in LongInputs(m, e) }

\* a run of main, upload_prices or upload_stocks of either module
Init ==
  /\ mod \in {"seller", "market"}
  /\ entry \in {"main", "upload_prices", "upload_stocks"}
  /\ pc = IF entry = "main" THEN "env" ELSE "get_offer_ids"
  /\ campaign = IF mod = "seller" THEN "OZON" ELSE "FBS"
  /\ \E x \in RunInputs(mod, entry) :
       /\ api = x.api
       /\ site = IF entry = "main" THEN x.feed ELSE <<>>
       /\ watch_remnants = IF entry = "main" THEN <<>> ELSE x.feed
  /\ offer_ids = <<>>
  /\ args = NoArgs
  /\ Fresh

Next ==
  \/ load_env
  \/ seller_get_offer_ids
  \/ market_get_offer_ids
  \/ download_stock
  \/ call_create_stocks
  \/ call_create_prices
  \/ update_stocks
  \/ update_price
  \/ market_main_upload_prices
  \/ not_empty
  \/ except

Spec == Init /\ [][Next]_vars

\* create_stocks and create_prices called in succession on one feed and one list
InitReconcile ==
  /\ mod \in {"seller", "market"}
  /\ entry = "reconcile"
  /\ pc \in {"create_stocks", "create_prices"}
  /\ campaign = IF mod = "seller" THEN "OZON" ELSE "FBS"
  /\ api = <<>> /\ site = <<>>
  /\ watch_remnants \in Feeds
  /\ offer_ids \in CatalogLists
  /\ args = NoArgs
  /\ Fresh

NextReconcile == call_create_stocks \/ call_create_prices

SpecReconcile == InitReconcile /\ [][NextReconcile]_vars

\* divide called on a list and a chunk size
InitDivide ==
  /\ mod = "seller"
  /\ entry = "divide"
  /\ pc = "divide"
  /\ campaign = "OZON"
  /\ api = <<>> /\ site = <<>> /\ watch_remnants = <<>> /\ offer_ids = <<>>
  /\ args \in [lst : SeqsUpTo({"a", "b"}, MaxLen), n : 1..MaxChunk]
  /\ Fresh

NextDivide == call_divide

SpecDivide == InitDivide /\ [][NextDivide]_vars

\* get_offer_ids run against scripted listing answers
SellerPages ==
  { [items |-> [j \in 1..Len(ids) |-> [offer_id |-> ids[j]]], total |-> t, last_id |-> l] :
      ids \in {<<>>, <<Id123>>, <<Id123, Id456>>}, t \in 0..2, l \in {<<"a">>, <<"b">>} }
MarketPages ==
  { [offerMappingEntries |-> [j \in 1..Len(ids) |-> [offer |-> [shopSku |-> ids[j]]]],
     paging |-> [nextPageToken |-> t]] :
      ids \in {<<>>, <<Id123>>, <<Id123, Id456>>},
      t \in {PyNone, PyStr(<<>>), PyStr(<<"a">>), PyStr(<<"b">>)} }

InitFetch ==
  /\ mod \in {"seller", "market"}
  /\ entry = "get_offer_ids"
  /\ pc = "get_offer_ids"
  /\ campaign = IF mod = "seller" THEN "OZON" ELSE "FBS"
  /\ \E k \in 1..MaxPages :
       \E script \in [1..k -> IF mod = "seller" THEN SellerPages ELSE MarketPages] :
         api = [c \in {campaign} |-> script]
  /\ site = <<>> /\ watch_remnants = <<>> /\ offer_ids = <<>>
  /\ args = NoArgs
  /\ Fresh

NextFetch == seller_get_offer_ids \/ market_get_offer_ids

SpecFetch == InitFetch /\ [][NextFetch]_vars

\* the price strings "5'990.00 руб." (seller.py:262) and "100 руб."; r, u, b
\* stand for the three Cyrillic letters
PriceDoc5990 == <<"5", "'", "9", "9", "0", ".", "0", "0", " ", "r", "u", "b", ".">>
PriceDoc100 == <<"1", "0", "0", " ", "r", "u", "b", ".">>

\* characters of the price strings tried: digits, the dot, the apostrophe,
\* the space and a letter
PriceAlphabet == {"0", "5", "9", ".", "'", " ", "r"}

PriceStrings == SeqsUpTo(PriceAlphabet, MaxPrice) \cup {PriceDoc5990, PriceDoc100}

\* price_conversion called on a price string
InitPrice ==
  /\ mod = "seller"
  /\ entry = "price_conversion"
  /\ pc = "price_conversion"
  /\ campaign = "OZON"
  /\ api = <<>> /\ site = <<>> /\ watch_remnants = <<>> /\ offer_ids = <<>>
  /\ args \in { [price |-> PyStr(p)] : p \in PriceStrings }
  /\ Fresh

NextPrice == call_price_conversion

SpecPrice == InitPrice /\ [][NextPrice]_vars

\* ------------------------------------------------------------------------
\* Vocabulary of the properties
\* ------------------------------------------------------------------------
StockCalls == { c \in 1..Len(calls) : calls[c].fn = "create_stocks" }
Returned(c) == calls[c].exc = "none"

UpdId(u) == IF mod = "seller" THEN u.offer_id ELSE u.sku
UpdCount(u) == IF mod = "seller" THEN u.stock ELSE u.items[1].count
UpdSet(result) == { <<UpdId(result[k]), UpdCount(result[k])>> : k \in 1..Len(result) }
PriceId(u) == IF mod = "seller" THEN u.offer_id ELSE u.id

Occ(x, lst) == Cardinality({ k \in 1..Len(lst) : lst[k] = x })
UpdatesFor(x, result) == { k \in 1..Len(result) : UpdId(result[k]) = x }

\* a quantity that is neither ">10", nor "1", nor an integer literal
Malformed(q) ==
  /\ py_str(q) # <<">", "1", "0">>
  /\ py_str(q) # <<"1">>
  /\ py_int(q).exc # "none"

\* the count the normalization rule gives a well-formed quantity
Norm(q) ==
  IF py_str(q) = <<">", "1", "0">> THEN 100
  ELSE IF py_str(q) = <<"1">> THEN 0
  ELSE py_int(q).v

\* the rows of feed whose code is identifier x
RowsOf(x, feed) == { i \in 1..Len(feed) : py_str(feed[i].code) = x }

Uploads(fn, c) == { k \in 1..Len(reqlog) : reqlog[k].fn = fn /\ reqlog[k].campaign = c }

\* a run of main in which no call failed has returned without printing
CleanReturn == entry = "main" /\ pc = "return" /\ printed = <<>>

\* ------------------------------------------------------------------------
\* Properties
\* ------------------------------------------------------------------------

\* C1: the list create_stocks returns holds exactly one update for each
\* identifier that occurs in the catalog list it was given, and no update for
\* an identifier that is not in that list.
C1_OneUpdatePerCatalogId ==
  \A c \in StockCalls : Returned(c) =>
    /\ \A k \in 1..Len(calls[c].offer_ids) :
         Cardinality(UpdatesFor(calls[c].offer_ids[k], calls[c].result)) = 1
    /\ \A k \in 1..Len(calls[c].result) :
         py_in(UpdId(calls[c].result[k]), calls[c].offer_ids)

\* C2: in the list create_stocks returns, an update for an identifier that
\* matches a feed row carries the normalized count of a row with that code,
\* and an update for an identifier that matches no feed row carries 0.
C2_CountsFollowFeed ==
  \A c \in StockCalls : Returned(c) =>
    \A k \in 1..Len(calls[c].result) :
      LET u == calls[c].result[k]
          rows == RowsOf(UpdId(u), calls[c].watch_remnants)
      IN  IF rows = {} THEN UpdCount(u) = 0
          ELSE \E i \in rows :
                 /\ ~Malformed(calls[c].watch_remnants[i].quantity)
                 /\ UpdCount(u) = Norm(calls[c].watch_remnants[i].quantity)

\* C3: when seller.main returns from a run in which no call failed, a price
\* update has been sent through update_price for every feed row whose code is
\* one of the catalog identifiers fetched at the start of the run.
C3_SellerMainSendsPrices ==
  (mod = "seller" /\ CleanReturn) =>
    \A i \in 1..Len(site) :
      py_in(py_str(site[i].code), calls[1].offer_ids) =>
        \E k \in Uploads("update_price", "OZON") :
          \E j \in 1..Len(reqlog[k].payload) :
            PriceId(reqlog[k].payload[j]) = py_str(site[i].code)

\* C4: when market.main returns from a run in which no call failed, for each
\* of the campaigns FBS and DBS a price update has been sent through
\* update_price for every feed row whose code is a catalog identifier of that
\* campaign.
C4_MarketMainSendsPrices ==
  (mod = "market" /\ CleanReturn) =>
    \A c \in StockCalls :
      \A i \in 1..Len(site) :
        py_in(py_str(site[i].code), calls[c].offer_ids) =>
          \E k \in Uploads("update_price", calls[c].campaign) :
            \E j \in 1..Len(reqlog[k].payload) :
              PriceId(reqlog[k].payload[j]) = py_str(site[i].code)

\* C5: no failure of the feed download, of a catalog fetch, of the
\* reconciliation or of an upload call leaves main as an exception; only the
\* lookup of the environment, which is none of these steps, is outside.
C5_MainNeverPropagates ==
  (entry = "main" /\ pc = "raised") => exc = "EnvError"

RECURSIVE Flatten(_)
Flatten(ss) == IF ss = <<>> THEN <<>> ELSE Head(ss) \o Flatten(Tail(ss))

\* C6: for every list and every chunk size n >= 1, the slices divide yields
\* concatenate to the list, none is empty or longer than n, all but the last
\* have length n, and the empty list yields no slice.
C6_DivideChunks ==
  /\ (entry = "divide" /\ pc = "return") =>
       /\ Flatten(batches) = args.lst
       /\ \A k \in 1..Len(batches) : Len(batches[k]) >= 1 /\ Len(batches[k]) <= args.n
       /\ \A k \in 1..(Len(batches) - 1) : Len(batches[k]) = args.n
       /\ args.lst = <<>> => batches = <<>>
  /\ divide(<<1, 2, 3, 4, 5>>, 2) = << <<1, 2>>, <<3, 4>>, <<5>> >>

C6_Witness ==
  /\ entry = "divide" /\ pc = "return"
  /\ Len(args.lst) = 5 /\ args.n = 2
  /\ Len(batches) = 3 /\ Len(batches[3]) = 1

\* C7: two create_stocks calls in succession on the same feed and the same
\* catalog list return the same set of (identifier, count) updates.
C7_SecondCallSameUpdates ==
  \A c \in StockCalls :
    (c + 1 \in StockCalls /\ Returned(c) /\ Returned(c + 1)) =>
      UpdSet(calls[c].result) = UpdSet(calls[c + 1].result)

\* row i of feed is met with its code still in the list: fewer earlier rows
\* carry its code than the list ids holds occurrences of it
Reached(i, feed, ids) ==
  Cardinality({ j \in 1..(i - 1) : py_str(feed[j].code) = py_str(feed[i].code) })
    < Occ(py_str(feed[i].code), ids)

\* the call was aborted by the conversion error: nothing returned, and no
\* update_stocks request for its catalog
Aborted(c) ==
  /\ calls[c].exc \in {"ValueError", "TypeError"}
  /\ calls[c].result = <<>>
  /\ Uploads("update_stocks", calls[c].campaign) = {}

\* C8 as stated: a feed row whose code is in the catalog list and whose
\* quantity is malformed makes create_stocks raise, and no update_stocks
\* request is sent for that catalog.
C8_MalformedMatchRaises ==
  \A c \in StockCalls :
    (\E i \in 1..Len(calls[c].watch_remnants) :
       /\ Malformed(calls[c].watch_remnants[i].quantity)
       /\ py_in(py_str(calls[c].watch_remnants[i].code), calls[c].offer_ids))
    => Aborted(c)

\* C8 as amended: a feed row whose quantity is malformed and whose code is
\* still in the catalog list when the row is reached makes create_stocks
\* raise the conversion error; nothing is returned and no update_stocks
\* request is sent for that catalog.
C8_MalformedReachedRaises ==
  \A c \in StockCalls :
    (\E i \in 1..Len(calls[c].watch_remnants) :
       /\ Malformed(calls[c].watch_remnants[i].quantity)
       /\ Reached(i, calls[c].watch_remnants, calls[c].offer_ids))
    => Aborted(c)

C8_Witness ==
  /\ entry = "main" /\ pc = "return" /\ printed = <<"ERROR_2">>
  /\ \E c \in StockCalls :
       /\ calls[c].exc = "ValueError"
       /\ \E i \in 1..Len(calls[c].watch_remnants) :
            /\ Malformed(calls[c].watch_remnants[i].quantity)
            /\ Reached(i, calls[c].watch_remnants, calls[c].offer_ids)

\* the batch limit of the platform for request r
Limit(r) ==
  CASE mod = "market" /\ r.fn = "update_stocks" -> 2000
    [] mod = "market" /\ r.fn = "update_price" -> 500
    [] mod = "seller" /\ r.fn = "update_stocks" -> 100
    [] mod = "seller" /\ r.fn = "update_price" /\ entry = "main" -> 900
    [] OTHER -> 1000

\* C9: every update_stocks and update_price request carries at least one
\* record and at most the batch limit of its platform and call site.
C9_BatchesWithinLimits ==
  \A k \in 1..Len(reqlog) :
    reqlog[k].fn \in {"update_stocks", "update_price"} =>
      /\ Len(reqlog[k].payload) >= 1
      /\ Len(reqlog[k].payload) <= Limit(reqlog[k])

C9_Witness ==
  /\ mod = "seller" /\ entry = "main"
  /\ \E k \in 1..(Len(reqlog) - 1) :
       /\ reqlog[k].fn = "update_price" /\ Len(reqlog[k].payload) = 900
       /\ reqlog[k + 1].fn = "update_price" /\ Len(reqlog[k + 1].payload) = 1

\* the page closes the listing: its nextPageToken is absent or empty
Terminal(page) ==
  page.paging.nextPageToken = PyNone \/ page.paging.nextPageToken = PyStr(<<>>)

SkusOf(script, n) ==
  Flatten([k \in 1..n |->
             [j \in 1..Len(script[k].offerMappingEntries) |->
                script[k].offerMappingEntries[j].offer.shopSku]])

\* C10: market.get_offer_ids sends its first request with the empty token and
\* each later one with the token of the previous answer, sends no request
\* after the first page whose token is empty or absent, and returns then the
\* shopSku of every entry of every page received, in page order.
C10_MarketFetchFollowsTokens ==
  (mod = "market" /\ entry = "get_offer_ids") =>
    LET script == api[campaign]
    IN  /\ reqlog # <<>> => reqlog[1].cursor = PyStr(<<>>)
        /\ \A k \in 2..Len(reqlog) :
             reqlog[k].cursor = script[k - 1].paging.nextPageToken
        /\ \A k \in 1..(Len(reqlog) - 1) : ~Terminal(script[k])
        /\ (served >= 1 /\ Terminal(script[served])) => pc = "return"
        /\ pc = "return" =>
             /\ served >= 1 /\ Terminal(script[served])
             /\ Len(reqlog) = served
             /\ offer_ids = SkusOf(script, served)

C10_Witness ==
  /\ mod = "market" /\ entry = "get_offer_ids" /\ pc = "return"
  /\ served = 2 /\ Len(offer_ids) = 3

\* the offer_id of every item of the first n answers, in page order
OfferIdsOf(script, n) ==
  Flatten([k \in 1..n |->
             [j \in 1..Len(script[k].items) |-> script[k].items[j].offer_id]])

\* the answer k closes the listing: the items of the answers 1..k are as many
\* as the total answer k reports
TotalReached(script, k) == script[k].total = Len(OfferIdsOf(script, k))

\* C11: seller.get_offer_ids sends its first request with the empty last_id
\* and each later one with the last_id of the previous answer; it sends no
\* request after the first answer at which the items gathered so far are as
\* many as the total that answer reports, returns at that answer the offer_id
\* of every item received, and returns at no other answer (not at one that
\* takes the count past the total either).
C11_SellerFetchStopsAtTotal ==
  (mod = "seller" /\ entry = "get_offer_ids") =>
    LET script == api[campaign]
    IN  /\ reqlog # <<>> => reqlog[1].cursor = PyStr(<<>>)
        /\ \A k \in 2..Len(reqlog) : reqlog[k].cursor = PyStr(script[k - 1].last_id)
        /\ \A k \in 1..(Len(reqlog) - 1) : ~TotalReached(script, k)
        /\ (served >= 1 /\ TotalReached(script, served)) => pc = "return"
        /\ pc = "return" =>
             /\ served >= 1 /\ TotalReached(script, served)
             /\ Len(reqlog) = served
             /\ offer_ids = OfferIdsOf(script, served)

\* a fetch that went on after an answer that took the count past the total,
\* and returned at the next answer, whose total the count equals
C11_Witness ==
  /\ mod = "seller" /\ entry = "get_offer_ids" /\ pc = "return"
  /\ served = 2
  /\ Len(OfferIdsOf(api[campaign], 1)) > api[campaign][1].total
  /\ Len(offer_ids) = 2

\* a fetch of an empty catalog: one request, answered with no item and total 0
C11_WitnessEmpty ==
  /\ mod = "seller" /\ entry = "get_offer_ids" /\ pc = "return"
  /\ served = 1 /\ api[campaign][1].total = 0 /\ offer_ids = <<>>

\* the digits of s met before its first dot, read character by character
RECURSIVE DigitsBeforeDot(_)
DigitsBeforeDot(s) ==
  IF s = <<>> \/ Head(s) = "." THEN <<>>
  ELSE IF Head(s) \in {"0", "1", "2", "3", "4", "5", "6", "7", "8", "9"}
       THEN <<Head(s)>> \o DigitsBeforeDot(Tail(s))
       ELSE DigitsBeforeDot(Tail(s))

\* C12: for every price string price_conversion returns, without raising,
\* the digits that stand before the first "." of the string, in their
\* order, and nothing else; "5'990.00 руб." gives "5990" and "100 руб."
\* gives "100".
C12_PriceConversionDigits ==
  (entry = "price_conversion" /\ pc = "return") =>
    /\ ret.exc = "none"
    /\ \A k \in 1..Len(ret.v) : ret.v[k] \in {"0", "1", "2", "3", "4", "5", "6", "7", "8", "9"}
    /\ ret.v = DigitsBeforeDot(args.price.s)
    /\ args.price.s = PriceDoc5990 => ret.v = <<"5", "9", "9", "0">>
    /\ args.price.s = PriceDoc100 => ret.v = <<"1", "0", "0">>

\* the first of the two prices converted: digits after the first dot and a
\* second dot are in the string, and none of them is in the result
C12_Witness ==
  /\ entry = "price_conversion" /\ pc = "return"
  /\ args.price.s = PriceDoc5990
  /\ ret.v = <<"5", "9", "9", "0">>

\* the positions of the list ids that a create_stocks call over feed leaves
\* in it: each row of feed that finds its code in the list takes the first
\* occurrence left, so an occurrence stays when it has more occurrences of
\* its identifier up to it than feed has rows with that code
KeptPositions(ids, feed) ==
  { k \in 1..Len(ids) :
      Cardinality({ j \in 1..k : ids[j] = ids[k] }) > Cardinality(RowsOf(ids[k], feed)) }

\* the identifiers at those positions, in the order of ids
Remaining(ids, feed) ==
  LET kept == KeptPositions(ids, feed)
  IN  [i \in 1..Cardinality(kept) |->
         ids[CHOOSE k \in kept : Cardinality({ j \in kept : j <= k }) = i]]

\* C13: a create_stocks call that returns has taken out of the list passed
\* as offer_ids one occurrence for each feed row that found its code in it,
\* and the list holds the other occurrences in their original order; a
\* create_prices call leaves the list as it was; the list the caller holds
\* afterwards is that same list; the feed is the same after every call.
C13_StocksConsumeListPricesDoNot ==
  /\ \A c \in 1..Len(calls) :
       /\ (calls[c].fn = "create_stocks" /\ Returned(c)) =>
            /\ calls[c].offer_ids_after = Remaining(calls[c].offer_ids, calls[c].watch_remnants)
            /\ \A x \in { calls[c].offer_ids[k] : k \in 1..Len(calls[c].offer_ids) } :
                 LET had == Occ(x, calls[c].offer_ids)
                     rows == Cardinality(RowsOf(x, calls[c].watch_remnants))
                 IN  Occ(x, calls[c].offer_ids_after) = had - (IF rows < had THEN rows ELSE had)
       /\ calls[c].fn = "create_prices" => calls[c].offer_ids_after = calls[c].offer_ids
       /\ calls[c].watch_remnants = watch_remnants
  /\ (entry = "reconcile" /\ calls # <<>>) => offer_ids = calls[Len(calls)].offer_ids_after

\* a create_stocks call on a list that names an identifier twice, one of the
\* two taken by a feed row, followed by a create_prices call on what is left
C13_Witness ==
  /\ entry = "reconcile" /\ Len(calls) = 2
  /\ calls[1].fn = "create_stocks" /\ Returned(1)
  /\ calls[1].offer_ids = <<Id123, Id456, Id123>>
  /\ calls[1].offer_ids_after = <<Id456, Id123>>
  /\ calls[2].fn = "create_prices" /\ Returned(2)
  /\ calls[2].result # <<>>
  /\ offer_ids = <<Id456, Id123>>

====
